---- MODULE Spec2Model ----
(***************************************************************************)
(* Anthropic -> Gemini adapter (Cloudflare worker, src/README.md:119-714). *)
(*                                                                         *)
(* Text is modelled as a sequence of code units ("tokens"): the newline,   *)
(* the SSE marker `data: `, the terminator payload `[DONE]`, the head of a *)
(* JSON object and the brace that closes it.  A backend chunk is any       *)
(* non-empty run of tokens, so a chunk boundary may fall inside a line.    *)
(***************************************************************************)
EXTENDS Naturals, Integers, Sequences, FiniteSets, TLC

VARIABLES
    \* ---- streaming pump: handleStreamingResponse / processGeminiStream
    kinds,          \* the records the backend sends, one kind per line
    stream,         \* the backend body as text (tokens); <<>> when there is no body
    hasBody,        \* geminiResponse.body is present
    pos,            \* tokens of the body already returned by reader.read()
    status,         \* HTTP status of the Response returned to the caller (0: none yet)
    pc,             \* position of processGeminiStream
    buffer,         \* `buffer`: the pending incomplete line
    lines,          \* the lines of the current chunk the for loop has not visited yet
    out,            \* the calls of writer.write, in order: [frame, ok]
    closeCalls,     \* number of calls of writer.close()
    writerErrored,  \* the outbound consumer is gone: every write rejects
    sawDone,        \* the terminator branch (data === '[DONE]') has been taken
    exitVia,        \* how the read loop was left
    \* ---- unary response translation: convertGeminiToAnthropic
    geminiResponse, \* the backend response handed to convertGeminiToAnthropic
    originalRequest,\* the source request it answers
    result,         \* the ConversionResult returned
    respPc,         \* "idle", "input" (not translated yet) or "done"
    \* ---- model mapping: getGeminiModel
    requestedModel, \* the source model identifier handed to getGeminiModel
    geminiModel,    \* the value getGeminiModel returned
    modelPc,        \* "idle", "input" or "done"
    \* ---- message flattening: convertAnthropicMessage
    msg,            \* the source message
    convertedMessage, \* the target message returned, or null
    msgPc,          \* "idle", "input" or "done"
    \* ---- request validation and translation
    anthropicRequest, \* the parsed source request
    validation,     \* the result of validateAnthropicRequest
    conversionResult, \* the result of convertAnthropicToGemini
    toolChoiceResult, \* the value convertAnthropicToolChoice returned for tool_choice
    reqPc,          \* "idle", "received", "validated", "rejected" or "converted"
    \* ---- the worker's fetch handler
    httpRequest,    \* the inbound request: method, path, body
    env,            \* the worker's bindings: GEMINI_API_KEY
    hpc,            \* position of the handler: the await it is suspended at
    response,       \* the Response the handler returned
    backendCalls,   \* number of calls of fetch(GEMINI_API_BASE, ...)
    backendAnswer,  \* how that call settled: "none", "rejected", "not_ok" or "ok"
    \* ---- stream chunk translation: convertGeminiStreamChunk
    parsedChunk,    \* the parsed backend chunk handed to convertGeminiStreamChunk
    derivedEvent,   \* the event it returned, or null
    chunkPc         \* "idle", "input" or "done"

streamVars == <<kinds, stream, hasBody, pos, status, pc, buffer, lines, out,
                closeCalls, writerErrored, sawDone, exitVia>>
respVars == <<geminiResponse, originalRequest, result, respPc>>
modelVars == <<requestedModel, geminiModel, modelPc>>
msgVars == <<msg, convertedMessage, msgPc>>
reqVars == <<anthropicRequest, validation, conversionResult, toolChoiceResult, reqPc>>
fetchVars == <<httpRequest, env, hpc, response, backendCalls, backendAnswer>>
chunkVars == <<parsedChunk, derivedEvent, chunkPc>>
requestVars == <<modelVars, msgVars, reqVars, fetchVars, chunkVars>>
vars == <<streamVars, respVars, requestVars>>

\* ------------------------------------------------------------------ bounds
MaxLines == 3       \* lines of a backend body in Spec
MaxTexts == 3       \* text chunks of a backend body in SpecOrdered
MaxToolCalls == 2   \* tool calls of a backend message in SpecResp
MaxMessages == 2    \* messages of a source request in SpecReq
MaxTools == 2       \* tools of a source request in SpecReq
MaxBlocks == 2      \* content blocks of a source message in SpecMsg
MaxModelTokens == 3 \* tokens of a model identifier in SpecModel

\* ------------------------------------------------------------------ helpers
RECURSIVE SeqsUpTo(_, _)
SeqsUpTo(S, n) ==
    IF n = 0 THEN {<<>>}
    ELSE LET shorter == SeqsUpTo(S, n - 1)
         IN  shorter \cup {Append(s, x) : s \in shorter, x \in S}

RECURSIVE Flatten(_)
Flatten(ss) == IF ss = <<>> THEN <<>> ELSE Head(ss) \o Flatten(Tail(ss))

Last(s) == s[Len(s)]
Front(s) == SubSeq(s, 1, Len(s) - 1)

\* ------------------------------------------------------------------ text
NL == "\n"
DataPrefix == "data: "
DoneToken == "[DONE]"
CloseBrace == "}"
Undefined == "undefined"    \* an absent or null string field

\* ---- stream chunks of the backend (GeminiStreamChunk), after JSON.parse
StreamChoice(content, toolCalls, finish) ==
    [delta |-> [content |-> content, tool_calls |-> toolCalls], finish_reason |-> finish]

NullChunk == [isNull |-> TRUE, choices |-> <<>>]
ChunkWith(choices) == [isNull |-> FALSE, choices |-> choices]

\* The JSON object heads the backend sends; each, closed by a brace, is one chunk.
JsonHeads == {"{text:a", "{text:b", "{tool:x", "{finish:stop", "{role",
              "{nochoices", "{text:a,finish:stop", "{tool:x,finish:tool_calls"}

ChunkOfHead(head) ==
    CASE head = "{text:a" -> ChunkWith(<<StreamChoice("a", <<>>, Undefined)>>)
      [] head = "{text:b" -> ChunkWith(<<StreamChoice("b", <<>>, Undefined)>>)
      [] head = "{tool:x" ->
            ChunkWith(<<StreamChoice(Undefined, <<[function |-> [arguments |-> "{\"x\":"]]>>, Undefined)>>)
      [] head = "{finish:stop" -> ChunkWith(<<StreamChoice(Undefined, <<>>, "stop")>>)
      [] head = "{role" -> ChunkWith(<<StreamChoice("", <<>>, Undefined)>>)
      [] head = "{nochoices" -> ChunkWith(<<>>)
      [] head = "{text:a,finish:stop" -> ChunkWith(<<StreamChoice("a", <<>>, "stop")>>)
      [] head = "{tool:x,finish:tool_calls" ->
            ChunkWith(<<StreamChoice(Undefined, <<[function |-> [arguments |-> ""]]>>, "tool_calls")>>)

\* JSON.parse(data) of a stream line: the literal null, or a closed object; anything
\* else (an object cut before its closing brace, the empty string) is a SyntaxError.
JSONParseChunk(data) ==
    IF data = <<"null">> THEN [ok |-> TRUE, value |-> NullChunk]
    ELSE IF Len(data) = 2 /\ data[1] \in JsonHeads /\ data[2] = CloseBrace
         THEN [ok |-> TRUE, value |-> ChunkOfHead(data[1])]
         ELSE [ok |-> FALSE, value |-> NullChunk]

\* ---- source stream events (AnthropicStreamChunk)
TextDelta(t) ==
    [type |-> "content_block_delta", index |-> 0, delta |-> [type |-> "text_delta", text |-> t]]
InputJsonDeltaOwnBlock(p) ==
    [type |-> "content_block_delta", index |-> 1,
     delta |-> [type |-> "input_json_delta", partial_json |-> p]]
InputJsonDelta(p) ==
    [type |-> "content_block_delta", index |-> 0,
     delta |-> [type |-> "input_json_delta", partial_json |-> p]]
MessageStop == [type |-> "message_stop"]
ErrorEvent == [type |-> "error"]
NoEvent == [type |-> "null"]

\* `x || ''` on a string field
OrEmpty(s) == IF s = Undefined THEN "" ELSE s

convertGeminiStreamChunkNoStop(geminiChunk) ==
    IF geminiChunk.choices = <<>> THEN NoEvent
    ELSE LET choice == geminiChunk.choices[1]
             content == OrEmpty(choice.delta.content)
         IN  IF content # "" THEN TextDelta(content)
             ELSE IF Len(choice.delta.tool_calls) > 0
                THEN InputJsonDelta(OrEmpty(choice.delta.tool_calls[1].function.arguments))
             ELSE NoEvent

convertGeminiStreamChunkStopFirst(geminiChunk) ==
    IF geminiChunk.choices = <<>> THEN NoEvent
    ELSE LET choice == geminiChunk.choices[1]
             content == OrEmpty(choice.delta.content)
         IN  IF choice.finish_reason # Undefined /\ choice.finish_reason # ""
                THEN MessageStop
             ELSE IF content # "" THEN TextDelta(content)
             ELSE IF Len(choice.delta.tool_calls) > 0
                THEN InputJsonDelta(OrEmpty(choice.delta.tool_calls[1].function.arguments))
             ELSE NoEvent

\* convertGeminiStreamChunk on a chunk that is not null
convertGeminiStreamChunk(geminiChunk) ==
    IF geminiChunk.choices = <<>> THEN NoEvent
    ELSE LET choice == geminiChunk.choices[1]
             content == OrEmpty(choice.delta.content)
         IN  IF content # "" THEN TextDelta(content)
             ELSE IF Len(choice.delta.tool_calls) > 0
                THEN InputJsonDelta(OrEmpty(choice.delta.tool_calls[1].function.arguments))
             ELSE IF choice.finish_reason # Undefined /\ choice.finish_reason # ""
                THEN MessageStop
             ELSE NoEvent

\* `event: <type>\ndata: <json>\n\n`
SSEFrame(ev) == [event |-> ev.type, data |-> ev]

\* ---- line buffering
\* text.split('\n'): the segments between newlines, always at least one
RECURSIVE Split(_)
Split(text) ==
    IF \A i \in 1..Len(text) : text[i] # NL THEN <<text>>
    ELSE LET i == CHOOSE i \in 1..Len(text) :
                      text[i] = NL /\ \A j \in 1..(i - 1) : text[j] # NL
         IN  <<SubSeq(text, 1, i - 1)>> \o Split(SubSeq(text, i + 1, Len(text)))

\* decoder.decode(value, {stream: true}): a token is one indivisible code unit
Decode(value) == value

StartsWithData(line) == Len(line) >= 1 /\ line[1] = DataPrefix
\* line.slice(6)
Payload(line) == Tail(line)

\* One iteration of the body of `for (const line of lines)`: the event handed to
\* writer.write (if any) and how the iteration ends: "next", "break" (leaves the for
\* loop) or "throw" (leaves the outer try).  `rejects` says that a write rejects.
LineOutcomeNoInnerTry(line, rejects) ==
    IF ~StartsWithData(line) THEN [ctl |-> "next", write |-> <<>>]
    ELSE IF Payload(line) = <<DoneToken>>
        THEN [ctl |-> IF rejects THEN "throw" ELSE "break", write |-> <<MessageStop>>]
    ELSE LET parsed == JSONParseChunk(Payload(line))
         IN  IF ~parsed.ok \/ parsed.value.isNull THEN [ctl |-> "throw", write |-> <<>>]
             ELSE LET anthropicChunk == convertGeminiStreamChunk(parsed.value)
                  IN  IF anthropicChunk = NoEvent THEN [ctl |-> "next", write |-> <<>>]
                      ELSE [ctl |-> "next", write |-> <<anthropicChunk>>]

LineOutcome(line, rejects) ==
    IF ~StartsWithData(line) THEN [ctl |-> "next", write |-> <<>>]
    ELSE IF Payload(line) = <<DoneToken>>
        THEN [ctl |-> IF rejects THEN "throw" ELSE "break", write |-> <<MessageStop>>]
    ELSE LET parsed == JSONParseChunk(Payload(line))
         IN  \* a SyntaxError, the TypeError of reading null.choices and a rejected
             \* write are all caught by the inner try
             IF ~parsed.ok \/ parsed.value.isNull THEN [ctl |-> "next", write |-> <<>>]
             ELSE LET anthropicChunk == convertGeminiStreamChunk(parsed.value)
                  IN  IF anthropicChunk = NoEvent THEN [ctl |-> "next", write |-> <<>>]
                      ELSE [ctl |-> "next", write |-> <<anthropicChunk>>]

\* ------------------------------------------------------------------ backend bodies
LineKinds == {"text_a", "text_b", "finish", "truncated", "null", "blank", "done"}

LineTokens(kind) ==
    CASE kind = "text_a" -> <<DataPrefix, "{text:a", CloseBrace>>
      [] kind = "text_b" -> <<DataPrefix, "{text:b", CloseBrace>>
      [] kind = "tool" -> <<DataPrefix, "{tool:x", CloseBrace>>
      [] kind = "finish" -> <<DataPrefix, "{finish:stop", CloseBrace>>
      [] kind = "role" -> <<DataPrefix, "{role", CloseBrace>>
      [] kind = "truncated" -> <<DataPrefix, "{text:b">>
      [] kind = "null" -> <<DataPrefix, "null">>
      [] kind = "blank" -> <<>>
      [] kind = "done" -> <<DataPrefix, DoneToken>>

\* the body: every line followed by a newline, the last one only if `terminated`
BodyOf(ks, terminated) ==
    LET all == Flatten([i \in 1..Len(ks) |-> LineTokens(ks[i]) \o <<NL>>])
    IN  IF terminated \/ ks = <<>> THEN all ELSE Front(all)

\* ------------------------------------------------------------------ the pump
\* ------------------------------------------------------------------ model mapping
\* A model identifier is text: a sequence of tokens such as <<"claude-3-", "opus">>.
FLAGSHIP == <<"google/gemini-2.5-pro">>
BALANCED == <<"google/gemini-2.5-flash">>
LITE == <<"google/gemini-2.5-flash-lite">>

\* the own keys of MODEL_MAPPING
MappingKeys ==
    {<<"claude-3-", "sonnet">>, <<"claude-3-", "sonnet", "-20240229">>,
     <<"claude-3.5-", "sonnet">>, <<"claude-3.5-", "sonnet", "-20240620">>,
     <<"claude-3.5-", "sonnet", "-20241022">>,
     <<"claude-3-", "opus">>, <<"claude-3-", "opus", "-20240229">>,
     <<"claude-3-", "haiku">>, <<"claude-3-", "haiku", "-20240307">>,
     <<"claude-4-", "opus">>, <<"claude-4-", "sonnet">>, <<"claude-4-", "haiku">>}

MODEL_MAPPING(key) ==
    IF \E i \in 1..Len(key) : key[i] = "opus" THEN FLAGSHIP
    ELSE IF \E i \in 1..Len(key) : key[i] = "sonnet" THEN BALANCED
    ELSE LITE

\* names every object inherits: MODEL_MAPPING[name] is a function, not a string
InheritedKeys == {<<"constructor">>, <<"toString">>}
InheritedValue == <<"[Function]">>

LowerToken(t) ==
    CASE t = "OPUS" -> "opus"
      [] t = "Sonnet" -> "sonnet"
      [] t = "HAIKU" -> "haiku"
      [] t = "Claude-" -> "claude-"
      [] OTHER -> t
ToLowerCase(text) == [i \in 1..Len(text) |-> LowerToken(text[i])]
Includes(text, token) == \E i \in 1..Len(text) : text[i] = token

getGeminiModel(claudeModel) ==
    IF claudeModel \in MappingKeys THEN MODEL_MAPPING(claudeModel)
    ELSE IF claudeModel \in InheritedKeys THEN InheritedValue
    ELSE LET lowerModel == ToLowerCase(claudeModel)
         IN  IF Includes(lowerModel, "opus") THEN FLAGSHIP
             ELSE IF Includes(lowerModel, "sonnet") THEN BALANCED
             ELSE IF Includes(lowerModel, "haiku") THEN LITE
             ELSE BALANCED

\* ------------------------------------------------------------------ unary response
\* JSON.parse of a tool call's `arguments` text; an object is its set of members
JSONParseArgs(text) ==
    CASE text = "{}" -> [ok |-> TRUE, value |-> {}]
      [] text = "{\"a\":1}" -> [ok |-> TRUE, value |-> {<<"a", 1>>}]
      [] OTHER -> [ok |-> FALSE, value |-> {}]

\* `toolCall.function.arguments || '{}'`
ArgumentsOrEmptyObject(arguments) ==
    IF arguments = "" \/ arguments = Undefined THEN "{}" ELSE arguments

ToolUseBlock(toolCall) ==
    [type |-> "tool_use", tool_use_id |-> toolCall.id, name |-> toolCall.function.name,
     input |-> JSONParseArgs(ArgumentsOrEmptyObject(toolCall.function.arguments)).value]
TextBlock(text) == [type |-> "text", text |-> text]

\* a string used as a condition: null, undefined and '' are falsy
Truthy(s) == s # Undefined /\ s # ""

MessageToolCalls(choice) == IF choice.hasMessage THEN choice.message.tool_calls ELSE <<>>

\* the blocks pushed for the tool calls and the text of the first choice
ProducedBlocks(choice) ==
    [i \in 1..Len(MessageToolCalls(choice)) |-> ToolUseBlock(MessageToolCalls(choice)[i])]
    \o (IF choice.hasMessage /\ Truthy(choice.message.content)
           THEN <<TextBlock(choice.message.content)>> ELSE <<>>)

\* `if (content.length === 0) content.push({type: 'text', text: ''})`
ContentNoFallback(blocks) == blocks
ContentOrEmptyText(blocks) == IF blocks = <<>> THEN <<TextBlock("")>> ELSE blocks

\* stopReason: 'end_turn', 'tool_use' once tool calls were pushed, then the switch
StopReasonToolCallsWin(choice) ==
    IF Len(MessageToolCalls(choice)) > 0 THEN "tool_use"
    ELSE IF Truthy(choice.finish_reason)
         THEN CASE choice.finish_reason = "stop" -> "end_turn"
                [] choice.finish_reason = "length" -> "max_tokens"
                [] choice.finish_reason = "tool_calls" -> "tool_use"
                [] choice.finish_reason = "content_filter" -> "stop_sequence"
                [] OTHER -> "end_turn"
         ELSE "end_turn"

StopReasonOf(choice) ==
    IF Truthy(choice.finish_reason)
       THEN CASE choice.finish_reason = "stop" -> "end_turn"
              [] choice.finish_reason = "length" -> "max_tokens"
              [] choice.finish_reason = "tool_calls" -> "tool_use"
              [] choice.finish_reason = "content_filter" -> "stop_sequence"
              [] OTHER -> "end_turn"
    ELSE IF Len(MessageToolCalls(choice)) > 0 THEN "tool_use"
    ELSE "end_turn"

\* `model: originalRequest.model`
EchoedModelOfBackend(resp, req) == resp.model
EchoedModel(resp, req) == req.model

\* `usage?.prompt_tokens || 0`
UsageOf(usage) ==
    [input_tokens |-> IF usage.present THEN usage.prompt_tokens ELSE 0,
     output_tokens |-> IF usage.present THEN usage.completion_tokens ELSE 0]

NoData == [type |-> "none"]
Failure(message) == [success |-> FALSE, error |-> message, data |-> NoData]
Success(data) == [success |-> TRUE, error |-> "", data |-> data]

\* `geminiResponse.error.message || 'Unknown error from Gemini API'`
ErrorMessageVerbatim(error) == error.message
ErrorMessageOrUnknown(error) ==
    IF Truthy(error.message) THEN error.message ELSE "Unknown error from Gemini API"

\* convertGeminiToAnthropic; `id` is the freshly generated message id
convertGeminiToAnthropic(resp, req, id) ==
    IF resp.error.present
       THEN Failure(ErrorMessageOrUnknown(resp.error))
    ELSE IF resp.choices = <<>> THEN Failure("No response choices from Gemini API")
    ELSE LET choice == resp.choices[1]
             toolCalls == MessageToolCalls(choice)
         IN  \* JSON.parse sits in the function's only try block: a SyntaxError is
             \* caught by the catch at the end of the function
             IF \E i \in 1..Len(toolCalls) :
                    ~JSONParseArgs(ArgumentsOrEmptyObject(toolCalls[i].function.arguments)).ok
                THEN Failure("Response conversion failed: SyntaxError")
             ELSE Success([id |-> id,
                           type |-> "message",
                           role |-> "assistant",
                           content |-> ContentOrEmptyText(ProducedBlocks(choice)),
                           model |-> EchoedModel(resp, req),
                           stop_reason |-> StopReasonOf(choice),
                           stop_sequence |-> Undefined,
                           usage |-> UsageOf(resp.usage)])

\* ---- the inputs of SpecResp
ArgumentTexts == {"", "{}", "{\"a\":1}", "{bad"}
ToolCalls == {[id |-> "call_1", type |-> "function",
               function |-> [name |-> "calculator", arguments |-> a]] : a \in ArgumentTexts}
ContentTexts == {Undefined, "", "Hello back!"}
FinishReasons == {Undefined, "", "stop", "length", "tool_calls", "content_filter", "function_call"}
NoMessage == [content |-> Undefined, tool_calls |-> <<>>]
Choices ==
    {[hasMessage |-> FALSE, message |-> NoMessage, finish_reason |-> f] : f \in FinishReasons}
    \cup {[hasMessage |-> TRUE, message |-> [content |-> c, tool_calls |-> tcs],
           finish_reason |-> f] :
             c \in ContentTexts, tcs \in SeqsUpTo(ToolCalls, MaxToolCalls), f \in FinishReasons}
SecondChoice ==
    [hasMessage |-> TRUE, message |-> [content |-> "another", tool_calls |-> <<>>],
     finish_reason |-> "length"]
NoError == [present |-> FALSE, message |-> ""]
BackendErrors == {NoError, [present |-> TRUE, message |-> "Invalid input"],
                  [present |-> TRUE, message |-> ""]}
Usages == {[present |-> FALSE, prompt_tokens |-> 0, completion_tokens |-> 0],
           [present |-> TRUE, prompt_tokens |-> 10, completion_tokens |-> 5]}
RequestModels == {<<"claude-3-", "opus">>, <<"claude-3-", "haiku">>, <<"my-model">>}

NoResponse == [model |-> <<>>, error |-> NoError, choices |-> <<>>, usage |-> UsageOf(NoError)]

RespIdle ==
    /\ geminiResponse = NoResponse
    /\ originalRequest = [model |-> <<>>]
    /\ result = Failure("")
    /\ respPc = "idle"

\* ------------------------------------------------------------------ source requests
\* A JSON value of the source request, as far as the translation inspects it; `text`
\* holds the tokens of a string, or the tokens of the JSON text of an object's members
\* or of an array's elements.
JUndefined == [kind |-> "undefined", text |-> <<>>]
JNull == [kind |-> "null", text |-> <<>>]
JString(t) == [kind |-> "string", text |-> t]
JObject(t) == [kind |-> "object", text |-> t]
JArray(t) == [kind |-> "array", text |-> t]

\* JavaScript truthiness of such a value: objects and arrays are truthy, a string is
\* truthy unless it is empty, undefined and null are falsy
IsTruthy(v) == v.kind \in {"object", "array"} \/ (v.kind = "string" /\ v.text # <<>>)

\* JSON.stringify(v) as it reads inside a template literal (undefined prints `undefined`)
JSONStringify(v) ==
    CASE v.kind = "undefined" -> <<Undefined>>
      [] v.kind = "null"      -> <<"null">>
      [] v.kind = "string"    -> <<"\"">> \o v.text \o <<"\"">>
      [] v.kind = "object"    -> <<"{">> \o v.text \o <<"}">>
      [] v.kind = "array"     -> <<"[">> \o v.text \o <<"]">>

\* an optional number of the source request (temperatures and top_p in tenths)
NoNumber == [present |-> FALSE, value |-> 0]
Num(n) == [present |-> TRUE, value |-> n]

\* String.prototype.trim
IsWhitespace(token) == token \in {" ", NL}
RECURSIVE TrimStart(_)
TrimStart(text) ==
    IF text # <<>> /\ IsWhitespace(Head(text)) THEN TrimStart(Tail(text)) ELSE text
RECURSIVE TrimEnd(_)
TrimEnd(text) ==
    IF text # <<>> /\ IsWhitespace(Last(text)) THEN TrimEnd(Front(text)) ELSE text
Trim(text) == TrimEnd(TrimStart(text))

\* Array.prototype.join
RECURSIVE Join(_, _)
Join(parts, separator) ==
    IF parts = <<>> THEN <<>>
    ELSE IF Len(parts) = 1 THEN parts[1]
    ELSE parts[1] \o separator \o Join(Tail(parts), separator)

\* a content block of a source message; the fields a block type does not use are undefined
ContentItem(type, text, name, input, content) ==
    [type |-> type, text |-> text, name |-> name, input |-> input, content |-> content]

\* the body of `msg.content.forEach`: what one block pushes onto textParts
TextPartsOfEveryBlock(contentItem) ==
    IF contentItem.type = "text"
       THEN <<contentItem.text.text>>
    ELSE IF contentItem.type = "tool_use"
       THEN << <<"[Tool Call: ">> \o contentItem.name.text \o <<"(">>
               \o JSONStringify(contentItem.input) \o <<")]">> >>
    ELSE IF contentItem.type = "tool_result"
       THEN << <<"[Tool Result: ">>
               \o (IF contentItem.content.kind = "string" THEN contentItem.content.text
                   ELSE JSONStringify(contentItem.content))
               \o <<"]">> >>
    ELSE <<>>
TextPartsOf(contentItem) ==
    IF contentItem.type = "text" /\ IsTruthy(contentItem.text)
       THEN <<contentItem.text.text>>
    ELSE IF contentItem.type = "tool_use" /\ IsTruthy(contentItem.name)
                                          /\ IsTruthy(contentItem.input)
       THEN << <<"[Tool Call: ">> \o contentItem.name.text \o <<"(">>
               \o JSONStringify(contentItem.input) \o <<")]">> >>
    ELSE IF contentItem.type = "tool_result"
       THEN << <<"[Tool Result: ">>
               \o (IF contentItem.content.kind = "string" THEN contentItem.content.text
                   ELSE JSONStringify(contentItem.content))
               \o <<"]">> >>
    ELSE <<>>   \* an unsupported type, or a text or tool_use block whose guard fails

\* the content of a source message: a string, an array of blocks, or neither
StringContent(text) == [kind |-> "string", text |-> text, blocks |-> <<>>]
ArrayContent(blocks) == [kind |-> "array", text |-> <<>>, blocks |-> blocks]
NoContent == [kind |-> "undefined", text |-> <<>>, blocks |-> <<>>]

\* a source message; `null` stands for an element of `messages` that is not an object
SourceMessage(role, content) == [isObject |-> TRUE, role |-> role, content |-> content]
NullElement == [isObject |-> FALSE, role |-> Undefined, content |-> NoContent]

\* `let content = ''; if (typeof msg.content === 'string') ... else if (Array.isArray ...`
FlattenedContent(m) ==
    IF m.content.kind = "string" THEN m.content.text
    ELSE IF m.content.kind = "array"
       THEN Join(Flatten([i \in 1..Len(m.content.blocks) |->
                              TextPartsOf(m.content.blocks[i])]), <<NL>>)
    ELSE <<>>

NullMessage == [isNull |-> TRUE, role |-> "", content |-> <<>>]
GeminiMessage(role, content) == [isNull |-> FALSE, role |-> role, content |-> content]

convertAnthropicMessageKeepEmpty(m, index) ==
    GeminiMessage(IF m.role = "assistant" THEN "assistant" ELSE "user", FlattenedContent(m))
convertAnthropicMessage(m, index) ==
    LET content == FlattenedContent(m)
    IN  IF Trim(content) = <<>> THEN NullMessage
        ELSE GeminiMessage(IF m.role = "assistant" THEN "assistant" ELSE "user", content)

\* a source tool, and convertAnthropicToolsToGemini
AnthropicTool(name, description, input_schema) ==
    [name |-> name, description |-> description, input_schema |-> input_schema]
convertAnthropicToolsToGemini(tools) ==
    [i \in 1..Len(tools) |->
        [type |-> "function",
         function |-> [name |-> tools[i].name,
                       description |-> tools[i].description,
                       parameters |-> tools[i].input_schema]]]

\* the tool_choice of a source request: undefined, null, a string, or an object with a
\* `type` and possibly a `name`
ChoiceUndefined == [kind |-> "undefined", value |-> "", type |-> "", name |-> JUndefined]
ChoiceNull == [kind |-> "null", value |-> "", type |-> "", name |-> JUndefined]
ChoiceString(s) == [kind |-> "string", value |-> s, type |-> "", name |-> JUndefined]
ChoiceObject(type, name) == [kind |-> "object", value |-> "", type |-> type, name |-> name]
ChoiceTruthy(c) == c.kind = "object" \/ (c.kind = "string" /\ c.value # "")

\* the tool_choice of a target request
GeminiNoChoice == [kind |-> "undefined", value |-> "", function |-> [name |-> <<>>]]
GeminiAuto == [kind |-> "string", value |-> "auto", function |-> [name |-> <<>>]]
GeminiFunctionChoice(name) ==
    [kind |-> "object", value |-> "function", function |-> [name |-> name]]

convertAnthropicToolChoiceDefaultAuto(toolChoice) ==
    IF toolChoice.kind = "object" /\ toolChoice.type = "tool" /\ IsTruthy(toolChoice.name)
       THEN GeminiFunctionChoice(toolChoice.name.text)
    ELSE GeminiAuto
convertAnthropicToolChoice(toolChoice) ==
    IF ~ChoiceTruthy(toolChoice) THEN GeminiNoChoice
    ELSE IF toolChoice.kind = "string" /\ toolChoice.value = "auto" THEN GeminiAuto
    ELSE IF toolChoice.kind = "string" /\ toolChoice.value = "any" THEN GeminiAuto
    ELSE IF toolChoice.kind = "object" /\ toolChoice.type = "tool"
                                       /\ IsTruthy(toolChoice.name)
       THEN GeminiFunctionChoice(toolChoice.name.text)
    ELSE GeminiAuto

\* optional fields of a request that hold a list, or a converted value
Absent == [present |-> FALSE, items |-> <<>>]
Present(items) == [present |-> TRUE, items |-> items]
NoToolChoice == [present |-> FALSE, value |-> GeminiNoChoice]

\* the `messages` field: an array, a value that is no array, or nothing
MessagesArray(items) == [kind |-> "array", items |-> items]
MessagesNoArray == [kind |-> "string", items |-> <<>>]
MessagesUndefined == [kind |-> "undefined", items |-> <<>>]

validateAnthropicRequestMessagesFirst(request) ==
    IF request.messages.kind # "array" THEN Failure("Missing or invalid messages field")
    ELSE IF Len(request.messages.items) = 0 THEN Failure("Messages array cannot be empty")
    ELSE IF ~IsTruthy(request.model) THEN Failure("Missing required field: model")
    ELSE Success(NoData)
validateAnthropicRequest(request) ==
    IF ~IsTruthy(request.model) THEN Failure("Missing required field: model")
    ELSE IF request.messages.kind # "array" THEN Failure("Missing or invalid messages field")
    ELSE IF Len(request.messages.items) = 0 THEN Failure("Messages array cannot be empty")
    ELSE Success(NoData)

DefaultMaxTokens == 1024
DefaultTemperature == 7     \* 0.7, in tenths

\* `max_tokens || 1024`
MaxTokensOrDefault(max_tokens) ==
    IF max_tokens.present /\ max_tokens.value # 0 THEN max_tokens.value
    ELSE DefaultMaxTokens

\* `temperature !== undefined ? temperature : 0.7`
TemperatureOrDefault(temperature) ==
    IF temperature.present THEN temperature.value ELSE DefaultTemperature

\* `if (system) geminiMessages.push(...)`, then `messages.forEach(...)`
GeminiMessagesOf(request) ==
    LET items == request.messages.items
        converted == [i \in 1..Len(items) |-> convertAnthropicMessage(items[i], i - 1)]
    IN  (IF IsTruthy(request.system)
            THEN <<GeminiMessage("system", request.system.text)>> ELSE <<>>)
        \o SelectSeq(converted, LAMBDA c : ~c.isNull)

\* `if (tools && tools.length > 0) { ...; if (convertedTools.length > 0) { ... } }`
ToolsOf(request) ==
    IF request.tools.present /\ Len(request.tools.items) > 0
       THEN Present(convertAnthropicToolsToGemini(request.tools.items))
    ELSE Absent

\* `if (tool_choice) geminiRequest.tool_choice = ...`, inside the tools branch
ToolChoiceWithoutTools(request) ==
    IF ChoiceTruthy(request.tool_choice)
       THEN [present |-> TRUE, value |-> convertAnthropicToolChoice(request.tool_choice)]
    ELSE NoToolChoice
ToolChoiceOf(request) ==
    IF ToolsOf(request).present /\ ChoiceTruthy(request.tool_choice)
       THEN [present |-> TRUE, value |-> convertAnthropicToolChoice(request.tool_choice)]
    ELSE NoToolChoice

\* the statements of convertAnthropicToGemini that throw a TypeError: getGeminiModel on
\* a model that is no string, `messages.forEach` on a value that is no array, and
\* `msg.role` on an element that is no object
ConversionThrows(request) ==
    \/ request.model.kind # "string"
    \/ request.messages.kind # "array"
    \/ \E i \in 1..Len(request.messages.items) : ~request.messages.items[i].isObject

convertAnthropicToGemini(request) ==
    IF ConversionThrows(request) THEN Failure("Request conversion failed: TypeError")
    ELSE Success([model |-> getGeminiModel(request.model.text),
                  messages |-> GeminiMessagesOf(request),
                  max_tokens |-> MaxTokensOrDefault(request.max_tokens),
                  temperature |-> TemperatureOrDefault(request.temperature),
                  top_p |-> request.top_p,
                  stop |-> IF request.stop_sequences.present
                              /\ Len(request.stop_sequences.items) > 0
                              THEN request.stop_sequences ELSE Absent,
                  tools |-> ToolsOf(request),
                  tool_choice |-> ToolChoiceOf(request)])

\* ---- the inputs of the request-side specifications
UserHello == SourceMessage("user", StringContent(<<"Hello!">>))
SonnetModel == JString(<<"claude-3-", "sonnet">>)
BasicRequest ==
    [model |-> SonnetModel,
     messages |-> MessagesArray(<<UserHello>>),
     max_tokens |-> NoNumber,
     temperature |-> NoNumber,
     top_p |-> NoNumber,
     system |-> JUndefined,
     tools |-> Absent,
     tool_choice |-> ChoiceUndefined,
     stop_sequences |-> Absent,
     stream |-> FALSE]

NoHttpResponse == [status |-> 0, type |-> "", message |-> ""]

ModelIdle ==
    /\ requestedModel = <<>>
    /\ geminiModel = <<>>
    /\ modelPc = "idle"

MsgIdle ==
    /\ msg = <<>>
    /\ convertedMessage = <<>>
    /\ msgPc = "idle"

ReqIdle ==
    /\ anthropicRequest = <<>>
    /\ validation = <<>>
    /\ conversionResult = <<>>
    /\ toolChoiceResult = <<>>
    /\ reqPc = "idle"

FetchIdle ==
    /\ httpRequest = <<>>
    /\ env = <<>>
    /\ hpc = "idle"
    /\ response = <<>>
    /\ backendCalls = 0
    /\ backendAnswer = "none"

ChunkIdle ==
    /\ parsedChunk = <<>>
    /\ derivedEvent = <<>>
    /\ chunkPc = "idle"

PumpStart(ks, body) ==
    /\ kinds = ks
    /\ stream = body
    /\ pos = 0
    /\ status = 0
    /\ pc = "start"
    /\ buffer = <<>>
    /\ lines = <<>>
    /\ out = <<>>
    /\ closeCalls = 0
    /\ writerErrored = FALSE
    /\ sawDone = FALSE
    /\ exitVia = "none"

Init ==
    /\ \E ks \in SeqsUpTo(LineKinds, MaxLines), terminated \in BOOLEAN :
          /\ hasBody \in BOOLEAN
          /\ (~hasBody => ks = <<>> /\ terminated)
          /\ PumpStart(ks, BodyOf(ks, terminated))
    /\ RespIdle
    /\ ModelIdle /\ MsgIdle /\ ReqIdle /\ FetchIdle /\ ChunkIdle

\* handleStreamingResponse: starts processGeminiStream, which runs up to its first
\* await, and returns the 200 response
HandleStreamingResponse ==
    /\ pc = "start"
    /\ status' = 200
    /\ pc' = IF hasBody THEN "read" ELSE "catch"
    /\ exitVia' = IF hasBody THEN exitVia ELSE "nobody"
    /\ UNCHANGED <<kinds, stream, hasBody, pos, buffer, lines, out, closeCalls,
                   writerErrored, sawDone, respVars, requestVars>>

\* reader.read() resolves with a chunk; the buffer is split and the for loop starts
ReadChunkNoHoldBack ==
    /\ pc = "read"
    /\ pos < Len(stream)
    /\ \E k \in 1..(Len(stream) - pos) :
          LET value == SubSeq(stream, pos + 1, pos + k)
              parts == Split(buffer \o Decode(value))
          IN  /\ pos' = pos + k
              /\ lines' = parts
              /\ buffer' = <<>>
              /\ pc' = "for"
    /\ UNCHANGED <<kinds, stream, hasBody, status, out, closeCalls, writerErrored,
                   sawDone, exitVia, respVars, requestVars>>
ReadChunk ==
    /\ pc = "read"
    /\ pos < Len(stream)
    /\ \E k \in 1..(Len(stream) - pos) :
          LET value == SubSeq(stream, pos + 1, pos + k)
              parts == Split(buffer \o Decode(value))
          IN  /\ pos' = pos + k
              /\ lines' = Front(parts)
              /\ buffer' = Last(parts)
              /\ pc' = IF Len(parts) = 1 THEN "read" ELSE "for"
    /\ UNCHANGED <<kinds, stream, hasBody, status, out, closeCalls, writerErrored,
                   sawDone, exitVia, respVars, requestVars>>

\* reader.read() resolves with done: `if (done) break`
ReadDoneFlushing ==
    /\ pc = "read"
    /\ pos = Len(stream)
    /\ LET o == LineOutcome(buffer, writerErrored)
       IN  out' = out \o [i \in 1..Len(o.write) |->
                              [frame |-> SSEFrame(o.write[i]), ok |-> ~writerErrored]]
    /\ pc' = "finally"
    /\ exitVia' = "exhausted"
    /\ UNCHANGED <<kinds, stream, hasBody, pos, status, buffer, lines, closeCalls,
                   writerErrored, sawDone, respVars, requestVars>>
ReadDone ==
    /\ pc = "read"
    /\ pos = Len(stream)
    /\ pc' = "finally"
    /\ exitVia' = "exhausted"
    /\ UNCHANGED <<kinds, stream, hasBody, pos, status, buffer, lines, out, closeCalls,
                   writerErrored, sawDone, respVars, requestVars>>

\* reader.read() rejects: the backend connection failed
ReadFail ==
    /\ pc = "read"
    /\ pc' = "catch"
    /\ exitVia' = "readfail"
    /\ UNCHANGED <<kinds, stream, hasBody, pos, status, buffer, lines, out, closeCalls,
                   writerErrored, sawDone, respVars, requestVars>>

\* one iteration of the for loop over the complete lines of the chunk
ProcessLine ==
    /\ pc = "for"
    /\ lines # <<>>
    /\ LET line == Head(lines)
           o == LineOutcome(line, writerErrored)
       IN  /\ out' = out \o [i \in 1..Len(o.write) |->
                                [frame |-> SSEFrame(o.write[i]), ok |-> ~writerErrored]]
           /\ sawDone' = (sawDone \/ (StartsWithData(line) /\ Payload(line) = <<DoneToken>>))
           /\ IF o.ctl = "throw"
                 THEN /\ pc' = "catch"
                      /\ exitVia' = "writefail"
                      /\ lines' = <<>>
              ELSE IF o.ctl = "break" \/ Tail(lines) = <<>>
                 THEN \* `break` leaves the for loop only: the while loop reads again
                      /\ pc' = "read"
                      /\ lines' = <<>>
                      /\ UNCHANGED exitVia
              ELSE /\ pc' = "for"
                   /\ lines' = Tail(lines)
                   /\ UNCHANGED exitVia
    /\ UNCHANGED <<kinds, stream, hasBody, pos, status, buffer, closeCalls,
                   writerErrored, respVars, requestVars>>

\* catch (error): one write of the error event; a rejection of that write leaves the
\* catch block by an exception, and the finally block still runs
CatchClosing ==
    /\ pc = "catch"
    /\ out' = Append(out, [frame |-> SSEFrame(ErrorEvent), ok |-> ~writerErrored])
    /\ closeCalls' = closeCalls + 1
    /\ pc' = "finally"
    /\ UNCHANGED <<kinds, stream, hasBody, pos, status, buffer, lines,
                   writerErrored, sawDone, exitVia, respVars, requestVars>>

CatchSilent ==
    /\ pc = "catch"
    /\ pc' = "finally"
    /\ UNCHANGED <<kinds, stream, hasBody, pos, status, buffer, lines, out, closeCalls,
                   writerErrored, sawDone, exitVia, respVars, requestVars>>

Catch ==
    /\ pc = "catch"
    /\ out' = Append(out, [frame |-> SSEFrame(ErrorEvent), ok |-> ~writerErrored])
    /\ pc' = "finally"
    /\ UNCHANGED <<kinds, stream, hasBody, pos, status, buffer, lines, closeCalls,
                   writerErrored, sawDone, exitVia, respVars, requestVars>>

\* finally: writer.close()
Finally ==
    /\ pc = "finally"
    /\ closeCalls' = closeCalls + 1
    /\ pc' = "end"
    /\ UNCHANGED <<kinds, stream, hasBody, pos, status, buffer, lines, out,
                   writerErrored, sawDone, exitVia, respVars, requestVars>>

\* the outbound consumer disconnects while the pump runs
Disconnect ==
    /\ pc \in {"read", "for", "catch"}
    /\ ~writerErrored
    /\ writerErrored' = TRUE
    /\ UNCHANGED <<kinds, stream, hasBody, pos, status, pc, buffer, lines, out,
                   closeCalls, sawDone, exitVia, respVars, requestVars>>

Next ==
    \/ HandleStreamingResponse
    \/ ReadChunk
    \/ ReadDone
    \/ ReadFail
    \/ ProcessLine
    \/ Catch
    \/ Finally
    \/ Disconnect

Spec == Init /\ [][Next]_vars

\* A body made of text chunks, one finish-reason chunk and the terminator, each record
\* optionally followed by the blank line of the SSE framing.
OrderedKinds(texts, framed) ==
    LET recs == texts \o <<"finish", "done">>
    IN  IF framed THEN Flatten([i \in 1..Len(recs) |-> <<recs[i], "blank">>]) ELSE recs

InitOrdered ==
    /\ \E texts \in SeqsUpTo({"text_a", "text_b"}, MaxTexts),
          framed \in BOOLEAN, terminated \in BOOLEAN :
          /\ hasBody = TRUE
          /\ PumpStart(OrderedKinds(texts, framed),
                       BodyOf(OrderedKinds(texts, framed), terminated))
    /\ RespIdle
    /\ ModelIdle /\ MsgIdle /\ ReqIdle /\ FetchIdle /\ ChunkIdle

SpecOrdered == InitOrdered /\ [][Next]_vars

\* ------------------------------------------------------------------ claims: the pump
Events(o) == [i \in 1..Len(o) |-> o[i].frame.data]
IsPrefix(s, t) == Len(s) <= Len(t) /\ SubSeq(t, 1, Len(s)) = s

\* the event a line of the given kind stands for (<<>>: none)
EventsOfKind(kind) ==
    CASE kind = "text_a" -> <<TextDelta("a")>>
      [] kind = "text_b" -> <<TextDelta("b")>>
      [] kind \in {"finish", "done"} -> <<MessageStop>>
      [] OTHER -> <<>>
EventsOfKinds(ks) == Flatten([i \in 1..Len(ks) |-> EventsOfKind(ks[i])])

\* the lines of the body that end with a newline
CompleteKinds == IF stream # <<>> /\ Last(stream) # NL THEN Front(kinds) ELSE kinds
IsDoneLine(line) == StartsWithData(line) /\ Payload(line) = <<DoneToken>>
IsMalformedLine(line) ==
    /\ StartsWithData(line)
    /\ ~IsDoneLine(line)
    /\ (~JSONParseChunk(Payload(line)).ok \/ JSONParseChunk(Payload(line)).value.isNull)

\* C1: whichever way the read loop is left, writer.close() is called exactly once by
\* the time processGeminiStream ends, never twice, and no write follows the close.
C1_ClosedExactlyOnce ==
    /\ [](closeCalls <= 1 /\ (pc = "end" <=> closeCalls = 1))
    /\ [][closeCalls >= 1 => out' = out]_vars

C1_Witness ==
    /\ pc = "end"
    /\ exitVia = "writefail"
    /\ closeCalls = 1
    /\ Len(out) >= 2
    /\ ~Last(out).ok

\* C2 (as claimed): the terminator line emits exactly one message_stop, and once it has
\* been processed no further backend chunk is read and no further source event is
\* derived from a backend line.
C2_TerminatorEndsLoop ==
    [][ /\ (~sawDone /\ sawDone' => Events(out') = Append(Events(out), MessageStop))
        /\ (sawDone => pos' = pos /\
                SelectSeq(Events(out'), LAMBDA e : e # ErrorEvent)
                    = SelectSeq(Events(out), LAMBDA e : e # ErrorEvent)) ]_vars

\* C3: for a body of n text chunks, a finish-reason chunk and the terminator (every
\* record a newline-terminated line), the events handed to the writer are at every
\* moment a prefix of, and at the close exactly, the n text deltas in backend order,
\* the message_stop of the finish reason and the message_stop of the terminator.
C3_OrderedEvents ==
    (exitVia \in {"none", "exhausted"} /\ Last(stream) = NL) =>
        /\ IsPrefix(Events(out), EventsOfKinds(kinds))
        /\ (pc = "end" =>
               /\ Events(out) = EventsOfKinds(kinds)
               /\ Len(out) = Len(SelectSeq(kinds, LAMBDA k : k \in {"text_a", "text_b"})) + 2
               /\ closeCalls = 1)

C3_Witness ==
    /\ pc = "end"
    /\ exitVia = "exhausted"
    /\ \A i \in 1..Len(out) : out[i].ok
    /\ Events(out) = <<TextDelta("b"), TextDelta("a"), MessageStop, MessageStop>>

\* C4: a data line that is not valid JSON, or whose conversion throws, is skipped: the
\* iteration writes nothing, leaves the loop running and goes on with the next line;
\* so without a terminator the events of a body are those of its well-formed lines.
C4_MalformedLineSkipped ==
    /\ [][ (pc = "for" /\ lines # <<>> /\ IsMalformedLine(Head(lines)) /\ lines' # lines) =>
              /\ out' = out
              /\ lines' = Tail(lines)
              /\ pc' = (IF Tail(lines) = <<>> THEN "read" ELSE "for")
              /\ exitVia' = exitVia
              /\ buffer' = buffer
              /\ closeCalls' = closeCalls ]_vars
    /\ []((pc = "end" /\ exitVia = "exhausted" /\ \A i \in 1..Len(kinds) : kinds[i] # "done") =>
              Events(out) = EventsOfKinds(
                  SelectSeq(CompleteKinds, LAMBDA k : k \notin {"truncated", "null"})))

C4_Witness ==
    /\ pc = "end"
    /\ exitVia = "exhausted"
    /\ kinds = <<"text_a", "truncated", "text_b">>
    /\ Events(out) = <<TextDelta("a"), TextDelta("b")>>

\* C5: the response returned by handleStreamingResponse has status 200 from then on;
\* when the body is missing or a read rejects, exactly one error event is handed to the
\* writer, after every earlier event (delivered unless the consumer is gone), and the
\* writer is closed after it.
C5_ErrorEventThenClose ==
    /\ (pc # "start" => status = 200)
    /\ (exitVia \in {"nobody", "readfail"} /\ pc \in {"finally", "end"}) =>
          /\ out # <<>>
          /\ Last(out).frame = SSEFrame(ErrorEvent)
          /\ (~writerErrored => Last(out).ok)
          /\ Cardinality({i \in 1..Len(out) : out[i].frame.event = "error"}) = 1
          /\ closeCalls = (IF pc = "end" THEN 1 ELSE 0)

C5_Witness ==
    /\ pc = "end"
    /\ exitVia = "readfail"
    /\ status = 200
    /\ Len(out) >= 2
    /\ Last(out).ok
    /\ Last(out).frame.event = "error"

\* ------------------------------------------------------------------ SpecResp
PumpIdle ==
    /\ hasBody = FALSE
    /\ PumpStart(<<>>, <<>>)

InitResp ==
    /\ PumpIdle
    /\ ModelIdle /\ MsgIdle /\ ReqIdle /\ FetchIdle /\ ChunkIdle
    /\ respPc = "input"
    /\ result = Failure("")
    /\ originalRequest \in {[model |-> m] : m \in RequestModels}
    /\ \E e \in BackendErrors, u \in Usages, c \in Choices, n \in 0..2 :
          geminiResponse = [model |-> getGeminiModel(originalRequest.model),
                            error |-> e,
                            choices |-> (CASE n = 0 -> <<>>
                                           [] n = 1 -> <<c>>
                                           [] n = 2 -> <<c, SecondChoice>>),
                            usage |-> u]

\* the non-streaming branch of handleAnthropicToGemini calls convertGeminiToAnthropic
ConvertResponse ==
    /\ respPc = "input"
    /\ \E id \in {"msg_1_a", "msg_2_b"} :
          result' = convertGeminiToAnthropic(geminiResponse, originalRequest, id)
    /\ respPc' = "done"
    /\ UNCHANGED <<streamVars, geminiResponse, originalRequest, requestVars>>

NextResp == ConvertResponse

SpecResp == InitResp /\ [][NextResp]_vars

\* ------------------------------------------------------------------ claims: unary response
FirstChoice == geminiResponse.choices[1]
Translated == respPc = "done" /\ ~geminiResponse.error.present /\ geminiResponse.choices # <<>>
Decodable(toolCall) == toolCall.function.arguments \in {"", "{}", "{\"a\":1}"}
DecodedInput(toolCall) ==
    IF toolCall.function.arguments = "{\"a\":1}" THEN {<<"a", 1>>} ELSE {}

\* C6 (as claimed): whatever the arguments strings of the tool calls are, the
\* translation succeeds; a tool call with undecodable arguments gives a tool_use block
\* with the empty object as input, and the other tool_use blocks carry their decoded
\* arguments.
C6_MalformedArgumentsDegrade ==
    Translated =>
        /\ result.success
        /\ \A i \in 1..Len(MessageToolCalls(FirstChoice)) :
              LET toolCall == MessageToolCalls(FirstChoice)[i]
              IN  result.data.content[i] =
                     [type |-> "tool_use", tool_use_id |-> toolCall.id,
                      name |-> toolCall.function.name,
                      input |-> IF Decodable(toolCall) THEN DecodedInput(toolCall) ELSE {}]

\* C7: a successful translation echoes the model identifier of the original request
\* (not the mapped one, which is the model field of the backend response); a
\* single-choice, text-only, stop-finished response gives the sole block
\* {type: text, text: <backend text>} and stop_reason end_turn.
C7_EchoesOriginalModel ==
    respPc = "done" =>
        /\ (result.success => result.data.model = originalRequest.model)
        /\ (/\ ~geminiResponse.error.present
            /\ Len(geminiResponse.choices) = 1
            /\ FirstChoice.hasMessage
            /\ FirstChoice.message.tool_calls = <<>>
            /\ FirstChoice.message.content # Undefined
            /\ FirstChoice.finish_reason = "stop")
           => /\ result.success
              /\ result.data.content = <<[type |-> "text", text |-> FirstChoice.message.content]>>
              /\ result.data.stop_reason = "end_turn"
              /\ result.data.model = originalRequest.model

C7_Witness ==
    /\ respPc = "done"
    /\ result.success
    /\ originalRequest.model = <<"claude-3-", "opus">>
    /\ geminiResponse.model = FLAGSHIP
    /\ getGeminiModel(originalRequest.model) = FLAGSHIP
    /\ result.data.model = <<"claude-3-", "opus">>
    /\ result.data.content = <<[type |-> "text", text |-> "Hello back!"]>>
    /\ result.data.stop_reason = "end_turn"

\* C8 (as claimed): when the first choice's message has k >= 1 tool calls and a text
\* content that is not null (the empty string included), the content of the source
\* response is k tool_use blocks, in tool-call order, then one text block with that text.
C8_ToolBlocksThenText ==
    (/\ Translated
     /\ result.success
     /\ FirstChoice.hasMessage
     /\ Len(FirstChoice.message.tool_calls) >= 1
     /\ FirstChoice.message.content # Undefined)
    => LET k == Len(FirstChoice.message.tool_calls)
       IN  /\ Len(result.data.content) = k + 1
           /\ \A i \in 1..k :
                 /\ result.data.content[i].type = "tool_use"
                 /\ result.data.content[i].input = DecodedInput(FirstChoice.message.tool_calls[i])
           /\ result.data.content[k + 1] = [type |-> "text", text |-> FirstChoice.message.content]

\* C9: the content of every successful translation is non-empty; with no message, or
\* with null content and no tool calls, it is exactly one text block with empty text.
C9_ContentNeverEmpty ==
    (respPc = "done" /\ result.success) =>
        /\ Len(result.data.content) >= 1
        /\ (\/ ~FirstChoice.hasMessage
            \/ (FirstChoice.message.content = Undefined /\ FirstChoice.message.tool_calls = <<>>))
           => result.data.content = <<[type |-> "text", text |-> ""]>>

C9_Witness ==
    /\ respPc = "done"
    /\ result.success
    /\ ~FirstChoice.hasMessage
    /\ result.data.content = <<[type |-> "text", text |-> ""]>>

FinishReasonMap(f) ==
    CASE f = "stop" -> "end_turn"
      [] f = "length" -> "max_tokens"
      [] f = "tool_calls" -> "tool_use"
      [] f = "content_filter" -> "stop_sequence"
      [] OTHER -> "end_turn"
ProvisionalStopReason ==
    IF FirstChoice.hasMessage /\ Len(FirstChoice.message.tool_calls) >= 1
       THEN "tool_use" ELSE "end_turn"

\* C10 (as claimed): a present finish_reason alone decides stop_reason (any value other
\* than the four known ones gives end_turn), also when tool calls are present; an absent
\* one leaves tool_use iff the message has a tool call.
C10_PresentFinishReasonDecides ==
    (respPc = "done" /\ result.success) =>
        result.data.stop_reason =
            (IF FirstChoice.finish_reason # Undefined
                THEN FinishReasonMap(FirstChoice.finish_reason)
                ELSE ProvisionalStopReason)

\* C10 (amended): a finish_reason that is present and not the empty string alone
\* decides stop_reason, also when tool calls are present; an absent or empty one leaves
\* tool_use iff the message has a tool call.
C10_TruthyFinishReasonDecides ==
    (respPc = "done" /\ result.success) =>
        result.data.stop_reason =
            (IF FirstChoice.finish_reason \notin {Undefined, ""}
                THEN FinishReasonMap(FirstChoice.finish_reason)
                ELSE ProvisionalStopReason)

C10_Witness ==
    /\ respPc = "done"
    /\ result.success
    /\ FirstChoice.hasMessage
    /\ Len(FirstChoice.message.tool_calls) = MaxToolCalls
    /\ FirstChoice.finish_reason = "length"
    /\ result.data.stop_reason = "max_tokens"

\* C11: a backend response that carries an error object is translated to a failure
\* whose message is the error's message, whatever the choices are; without an error
\* object and without a first choice the failure is the no-response-choices message.
C11_ErrorMessagePropagated ==
    respPc = "done" =>
        /\ geminiResponse.error.present =>
              result = Failure(geminiResponse.error.message)
        /\ (~geminiResponse.error.present /\ geminiResponse.choices = <<>>) =>
              result = Failure("No response choices from Gemini API")

\* C11 as the code has it: an error object always yields a failure, before the choices
\* are looked at; its message is the error's message when that is a non-empty string and
\* `Unknown error from Gemini API` otherwise.
C11_ErrorObjectAlwaysFails ==
    respPc = "done" =>
        /\ geminiResponse.error.present =>
              /\ ~result.success
              /\ result.data = NoData
              /\ result.error = (IF geminiResponse.error.message # ""
                                   THEN geminiResponse.error.message
                                   ELSE "Unknown error from Gemini API")
        /\ (~geminiResponse.error.present /\ geminiResponse.choices = <<>>) =>
              result = Failure("No response choices from Gemini API")

\* an error object next to two well-formed choices: the error wins
C11_Witness ==
    /\ respPc = "done"
    /\ geminiResponse.error.present
    /\ Len(geminiResponse.choices) = 2
    /\ FirstChoice.hasMessage /\ FirstChoice.message.content = "Hello back!"
    /\ result = Failure("Invalid input")

\* ------------------------------------------------------------------ SpecReq
\* validateAnthropicRequest, then convertAnthropicToGemini, as handleAnthropicToGemini
\* calls them on a parsed request; convertAnthropicToolChoice is also called on its own.
ImageBlock == ContentItem("image", JUndefined, JUndefined, JUndefined, JUndefined)
CalculatorCall ==
    ContentItem("tool_use", JUndefined, JString(<<"calculator">>),
                JObject(<<"\"a\":1">>), JUndefined)
RequestMessages ==
    {UserHello,
     SourceMessage("assistant", StringContent(<<"Hello back!">>)),
     SourceMessage("user", StringContent(<<" ">>)),
     SourceMessage("user", ArrayContent(<<ImageBlock>>)),
     SourceMessage(Undefined, ArrayContent(<<CalculatorCall>>)),
     NullElement}
SystemPrompts ==
    {JUndefined, JString(<<>>), JString(<<" ">>), JString(<<"You are a helpful assistant">>)}
RequestModelValues == {JUndefined, JString(<<>>), SonnetModel}

Calculator == AnthropicTool("calculator", "A calculator", "{operation}")
Weather == AnthropicTool("weather", "A forecast", "{city}")
ToolChoices ==
    {ChoiceUndefined, ChoiceNull, ChoiceString(""), ChoiceString("auto"), ChoiceString("any"),
     ChoiceString("none"), ChoiceObject("tool", JString(<<"calculator">>)),
     ChoiceObject("tool", JUndefined), ChoiceObject("function", JString(<<"calculator">>))}
OptionalNumbers == {NoNumber, Num(0), Num(100)}
StopSequences == {Absent, Present(<<>>), Present(<<"stop1", "stop2">>)}

GeminiChoicePending == [kind |-> "pending", value |-> "", function |-> [name |-> <<>>]]

\* requests that differ in their model, messages and system prompt
MessageVariants ==
    {[BasicRequest EXCEPT !.model = m, !.messages = ms, !.system = s] :
        m \in RequestModelValues,
        ms \in {MessagesUndefined, MessagesNoArray}
               \cup {MessagesArray(items) : items \in SeqsUpTo(RequestMessages, MaxMessages)},
        s \in SystemPrompts}

\* requests that differ in their sampling parameters, tools and tool choice
ParameterVariants ==
    {[BasicRequest EXCEPT !.max_tokens = mt, !.temperature = t, !.top_p = p,
                          !.stop_sequences = ss, !.tools = tl, !.tool_choice = tc] :
        mt \in OptionalNumbers, t \in OptionalNumbers, p \in OptionalNumbers,
        ss \in StopSequences,
        tl \in {Absent} \cup {Present(ts) : ts \in SeqsUpTo({Calculator, Weather}, MaxTools)},
        tc \in ToolChoices}

InitReq ==
    /\ PumpIdle
    /\ RespIdle /\ ModelIdle /\ MsgIdle /\ FetchIdle /\ ChunkIdle
    /\ anthropicRequest \in MessageVariants \cup ParameterVariants
    /\ validation = Failure("")
    /\ conversionResult = Failure("")
    /\ toolChoiceResult = GeminiChoicePending
    /\ reqPc = "received"

\* `const validation = validateAnthropicRequest(anthropicRequest)`
ValidateRequest ==
    /\ reqPc = "received"
    /\ validation' = validateAnthropicRequest(anthropicRequest)
    /\ reqPc' = IF validation'.success THEN "validated" ELSE "rejected"
    /\ UNCHANGED <<streamVars, respVars, modelVars, msgVars, fetchVars, chunkVars,
                   anthropicRequest, conversionResult, toolChoiceResult>>

\* `const conversionResult = convertAnthropicToGemini(anthropicRequest)`
ConvertRequest ==
    /\ reqPc = "validated"
    /\ conversionResult' = convertAnthropicToGemini(anthropicRequest)
    /\ reqPc' = "converted"
    /\ UNCHANGED <<streamVars, respVars, modelVars, msgVars, fetchVars, chunkVars,
                   anthropicRequest, validation, toolChoiceResult>>

\* convertAnthropicToolChoice called directly on the request's tool_choice
ConvertToolChoice ==
    /\ reqPc # "idle"
    /\ toolChoiceResult = GeminiChoicePending
    /\ toolChoiceResult' = convertAnthropicToolChoice(anthropicRequest.tool_choice)
    /\ UNCHANGED <<streamVars, respVars, modelVars, msgVars, fetchVars, chunkVars,
                   anthropicRequest, validation, conversionResult, reqPc>>

NextReq ==
    \/ ValidateRequest
    \/ ConvertRequest
    \/ ConvertToolChoice

SpecReq == InitReq /\ [][NextReq]_vars

\* ------------------------------------------------------------------ claims: request
Built == reqPc = "converted" /\ conversionResult.success
SourceItems == anthropicRequest.messages.items
TargetRequest == conversionResult.data
IsBlank(text) == \A i \in 1..Len(text) : text[i] \in {" ", NL}
HasSystemPrompt == anthropicRequest.system.kind = "string" /\ anthropicRequest.system.text # <<>>

\* C12: the message list of a built target request is one system message first if a
\* (non-empty) system prompt is present, followed, in their original relative order, by
\* exactly the source messages whose plain or flattened content is not empty or
\* whitespace-only; no target message has empty content.
C12_MessageListKeepsNonEmpty ==
    Built =>
        LET kept == SelectSeq(SourceItems, LAMBDA m : ~IsBlank(FlattenedContent(m)))
            sys == IF HasSystemPrompt THEN 1 ELSE 0
            target == TargetRequest.messages
        IN  /\ Len(target) = sys + Len(kept)
            /\ sys = 1 => target[1] = GeminiMessage("system", anthropicRequest.system.text)
            /\ \A i \in 1..Len(kept) :
                  /\ target[sys + i].content = FlattenedContent(kept[i])
                  /\ target[sys + i].role =
                        (IF kept[i].role = "assistant" THEN "assistant" ELSE "user")
            /\ \A i \in 1..Len(target) : ~target[i].isNull /\ target[i].content # <<>>

\* a system prompt, a kept message and a message that flattens to nothing
C12_Witness ==
    /\ Built
    /\ HasSystemPrompt
    /\ SourceItems = <<SourceMessage("user", ArrayContent(<<ImageBlock>>)), UserHello>>
    /\ Len(TargetRequest.messages) = 2
    /\ TargetRequest.messages[2] = GeminiMessage("user", <<"Hello!">>)

\* ------------------------------------------------------------------ claims: parameters
\* C14: in a built target request max_tokens is the source max_tokens whenever one is
\* supplied (0 included) and 1024 only when it is absent; temperature is the source
\* temperature whenever one is supplied (0 included) and 0.7 only when it is absent;
\* top_p is present iff the source supplies it; stop is present iff the source
\* stop_sequences list is non-empty.
C14_ScalarParameters ==
    Built =>
        /\ TargetRequest.max_tokens =
              (IF anthropicRequest.max_tokens.present
                  THEN anthropicRequest.max_tokens.value ELSE DefaultMaxTokens)
        /\ TargetRequest.temperature =
              (IF anthropicRequest.temperature.present
                  THEN anthropicRequest.temperature.value ELSE DefaultTemperature)
        /\ TargetRequest.top_p = anthropicRequest.top_p
        /\ TargetRequest.stop.present <=>
              (anthropicRequest.stop_sequences.present
               /\ anthropicRequest.stop_sequences.items # <<>>)
        /\ TargetRequest.stop.present =>
              TargetRequest.stop.items = anthropicRequest.stop_sequences.items

ToolChoiceConverted == toolChoiceResult # GeminiChoicePending
NamedTool(c) == c.kind = "object" /\ c.type = "tool" /\ c.name.kind = "string"

C16_ToolChoiceOnlyWithTools ==
    Built =>
        LET source == anthropicRequest.tools
            target == TargetRequest.tools
        IN  /\ target.present <=> (source.present /\ source.items # <<>>)
            /\ target.present =>
                  /\ Len(target.items) = Len(source.items)
                  /\ \A i \in 1..Len(source.items) :
                        /\ target.items[i].type = "function"
                        /\ target.items[i].function.name = source.items[i].name
                        /\ target.items[i].function.description = source.items[i].description
                        /\ target.items[i].function.parameters = source.items[i].input_schema
            /\ TargetRequest.tool_choice.present => target.present

\* a tool choice supplied with an empty tool list is not forwarded
C16_Witness ==
    /\ Built
    /\ anthropicRequest.tools = Present(<<>>)
    /\ anthropicRequest.tool_choice = ChoiceObject("tool", JString(<<"calculator">>))
    /\ ~TargetRequest.tools.present
    /\ ~TargetRequest.tool_choice.present

\* ------------------------------------------------------------------ SpecMsg
\* convertAnthropicMessage applied to one source message
TextValues == {JUndefined, JString(<<>>), JString(<<" ">>), JString(<<"First part">>)}
SourceTextBlocks ==
    {ContentItem("text", t, JUndefined, JUndefined, JUndefined) : t \in TextValues}
SourceToolUseBlocks ==
    {ContentItem("tool_use", JUndefined, n, i, JUndefined) :
        n \in {JUndefined, JString(<<"calculator">>)},
        i \in {JUndefined, JObject(<<>>), JObject(<<"\"a\":1">>)}}
SourceToolResultBlocks ==
    {ContentItem("tool_result", JUndefined, JUndefined, JUndefined, c) :
        c \in {JUndefined, JString(<<>>), JString(<<"Result: 3">>),
               JArray(<<"{\"type\":\"text\"}">>)}}
ContentBlocks ==
    SourceTextBlocks \cup SourceToolUseBlocks \cup SourceToolResultBlocks \cup {ImageBlock}
MessageContents ==
    {NoContent}
    \cup {StringContent(t) : t \in {<<>>, <<" ">>, <<"Hello, world!">>}}
    \cup {ArrayContent(bs) : bs \in SeqsUpTo(ContentBlocks, MaxBlocks)}
Roles == {"user", "assistant", Undefined}

InitMsg ==
    /\ PumpIdle
    /\ RespIdle /\ ModelIdle /\ ReqIdle /\ FetchIdle /\ ChunkIdle
    /\ msg \in {SourceMessage(r, c) : r \in Roles, c \in MessageContents}
    /\ convertedMessage = NullMessage
    /\ msgPc = "input"

\* `const convertedMessage = convertAnthropicMessage(msg, index)`
ConvertMessage ==
    /\ msgPc = "input"
    /\ convertedMessage' = convertAnthropicMessage(msg, 0)
    /\ msgPc' = "done"
    /\ UNCHANGED <<streamVars, respVars, modelVars, reqVars, fetchVars, chunkVars, msg>>

NextMsg == ConvertMessage

SpecMsg == InitMsg /\ [][NextMsg]_vars

\* ------------------------------------------------------------------ claims: messages
Flattened == msgPc = "done" /\ msg.content.kind = "array" /\ ~convertedMessage.isNull
ToolResultLine(b) ==
    <<"[Tool Result: ">>
    \o (IF b.content.kind = "string" THEN b.content.text ELSE JSONStringify(b.content))
    \o <<"]">>
ToolCallLine(b) ==
    <<"[Tool Call: ">>
    \o (IF b.name.kind = "string" THEN b.name.text ELSE <<Undefined>>)
    \o <<"(">> \o JSONStringify(b.input) \o <<")]">>
JoinedLines(Part(_)) ==
    Join(Flatten([i \in 1..Len(msg.content.blocks) |-> Part(msg.content.blocks[i])]), <<NL>>)

\* C13: the content produced for a block sequence is the newline-join, in block order,
\* of one contribution per block: a text block's text, `[Tool Call: <name>(<JSON
\* input>)]` for a tool_use block, `[Tool Result: <content>]` for a tool_result block,
\* nothing for a block of another type.
C13_StatedPart(b) ==
    CASE b.type = "text"        -> IF b.text.kind = "string" THEN <<b.text.text>> ELSE <<>>
      [] b.type = "tool_use"    -> <<ToolCallLine(b)>>
      [] b.type = "tool_result" -> <<ToolResultLine(b)>>
      [] OTHER                  -> <<>>
C13_OneContributionPerBlock ==
    Flattened => convertedMessage.content = JoinedLines(C13_StatedPart)

\* C13 as the code has it: a text block contributes only a non-empty text, a tool_use
\* block only when it has a non-empty name and an input; such blocks otherwise
\* contribute nothing, like the blocks of another type.
C13_GuardedPart(b) ==
    CASE b.type = "text" /\ b.text.kind = "string" /\ b.text.text # <<>> -> <<b.text.text>>
      [] b.type = "tool_use" /\ b.name.kind = "string" /\ b.name.text # <<>>
                             /\ b.input.kind = "object" -> <<ToolCallLine(b)>>
      [] b.type = "tool_result" -> <<ToolResultLine(b)>>
      [] OTHER -> <<>>
C13_GuardedContributionPerBlock ==
    Flattened => convertedMessage.content = JoinedLines(C13_GuardedPart)

\* a tool call followed by its result
C13_Witness ==
    /\ msgPc = "done"
    /\ msg.content.kind = "array"
    /\ Len(msg.content.blocks) = 2
    /\ msg.content.blocks[1].type = "tool_use"
    /\ msg.content.blocks[2].type = "tool_result"
    /\ convertedMessage.content =
          <<"[Tool Call: ", "calculator", "(", "{", "\"a\":1", "}", ")]", NL,
            "[Tool Result: ", "Result: 3", "]">>

\* ------------------------------------------------------------------ SpecModel
\* getGeminiModel applied to one model identifier
ModelTokens ==
    {"claude-3-", "claude-4-", "Claude-", "unknown-", "opus", "OPUS", "sonnet", "Sonnet",
     "haiku", "HAIKU", "-20240229", "constructor", "toString"}

InitModel ==
    /\ PumpIdle
    /\ RespIdle /\ MsgIdle /\ ReqIdle /\ FetchIdle /\ ChunkIdle
    /\ requestedModel \in MappingKeys \cup SeqsUpTo(ModelTokens, MaxModelTokens)
    /\ geminiModel = <<>>
    /\ modelPc = "input"

\* `const geminiModel = getGeminiModel(model)`
MapModel ==
    /\ modelPc = "input"
    /\ geminiModel' = getGeminiModel(requestedModel)
    /\ modelPc' = "done"
    /\ UNCHANGED <<streamVars, respVars, msgVars, reqVars, fetchVars, chunkVars,
                   requestedModel>>

NextModel == MapModel

SpecModel == InitModel /\ [][NextModel]_vars

\* ------------------------------------------------------------------ claims: model mapping
C17_TableEntry(key) ==
    CASE key \in {<<"claude-3-", "sonnet">>, <<"claude-3-", "sonnet", "-20240229">>,
                  <<"claude-3.5-", "sonnet">>, <<"claude-3.5-", "sonnet", "-20240620">>,
                  <<"claude-3.5-", "sonnet", "-20241022">>, <<"claude-4-", "sonnet">>}
              -> <<"google/gemini-2.5-flash">>
      [] key \in {<<"claude-3-", "opus">>, <<"claude-3-", "opus", "-20240229">>,
                  <<"claude-4-", "opus">>}
              -> <<"google/gemini-2.5-pro">>
      [] key \in {<<"claude-3-", "haiku">>, <<"claude-3-", "haiku", "-20240307">>,
                  <<"claude-4-", "haiku">>}
              -> <<"google/gemini-2.5-flash-lite">>
ContainsIgnoringCase(text, word) ==
    \E i \in 1..Len(text) : LowerToken(text[i]) = word

\* C17: getGeminiModel returns the table entry for a key of MODEL_MAPPING; for any
\* other identifier it returns the flagship tier if the lower-cased identifier contains
\* `opus`, else the balanced tier if it contains `sonnet`, else the lite tier if it
\* contains `haiku`, and the balanced tier otherwise.
C17_TableThenSubstring ==
    modelPc = "done" =>
        geminiModel =
           (IF requestedModel \in MappingKeys THEN C17_TableEntry(requestedModel)
            ELSE IF ContainsIgnoringCase(requestedModel, "opus") THEN FLAGSHIP
            ELSE IF ContainsIgnoringCase(requestedModel, "sonnet") THEN BALANCED
            ELSE IF ContainsIgnoringCase(requestedModel, "haiku") THEN LITE
            ELSE BALANCED)

\* C18: for every identifier, the empty one and names that are no own key of the table
\* included, getGeminiModel returns one of the three target tier identifiers.
C18_AlwaysATier ==
    modelPc = "done" =>
        geminiModel \in {<<"google/gemini-2.5-pro">>, <<"google/gemini-2.5-flash">>,
                         <<"google/gemini-2.5-flash-lite">>}

\* ------------------------------------------------------------------ claims: validation
Validated == reqPc \in {"validated", "rejected", "converted"}
ModelMissing ==
    anthropicRequest.model.kind # "string" \/ anthropicRequest.model.text = <<>>

\* C19: validateAnthropicRequest stops at the first failure, in this order: a missing or
\* empty model, a missing or non-array messages field, an empty messages array; every
\* other request is accepted, whatever its other fields are.
C19_FirstFailureWins ==
    Validated =>
        validation =
           (IF ModelMissing THEN Failure("Missing required field: model")
            ELSE IF anthropicRequest.messages.kind # "array"
               THEN Failure("Missing or invalid messages field")
            ELSE IF anthropicRequest.messages.items = <<>>
               THEN Failure("Messages array cannot be empty")
            ELSE Success(NoData))

\* an empty model together with a messages field that is no array
C19_Witness ==
    /\ reqPc = "rejected"
    /\ anthropicRequest.model = JString(<<>>)
    /\ anthropicRequest.messages = MessagesNoArray
    /\ validation.error = "Missing required field: model"

\* ------------------------------------------------------------------ SpecFetch
\* The worker's fetch handler and handleAnthropicToGemini, one action per stretch of
\* code between two awaits; a streaming answer starts the pump of Spec.
createErrorResponse(type, message, st) == [status |-> st, type |-> type, message |-> message]
handleCORS == [status |-> 200, type |-> "cors", message |-> ""]
MessageResponse == [status |-> 200, type |-> "message", message |-> ""]
StreamResponse == [status |-> 200, type |-> "stream", message |-> ""]

Methods == {"OPTIONS", "POST", "GET"}
Paths == {"/v1/messages", "/v1/messages/", "/unknown"}
ApiKeys == {JUndefined, JString(<<>>), JString(<<"test-api-key">>)}
BlankOnly == MessagesArray(<<SourceMessage("user", StringContent(<<" ">>))>>)
InboundRequests ==
    {BasicRequest,
     [BasicRequest EXCEPT !.stream = TRUE],
     [BasicRequest EXCEPT !.model = JUndefined],
     [BasicRequest EXCEPT !.messages = MessagesArray(<<NullElement>>)],
     [BasicRequest EXCEPT !.messages = BlankOnly]}
InboundBodies ==
    {[body |-> "malformed", json |-> BasicRequest], [body |-> "null", json |-> BasicRequest]}
    \cup {[body |-> "object", json |-> r] : r \in InboundRequests}

HelloChoice ==
    [hasMessage |-> TRUE, message |-> [content |-> "Hello back!", tool_calls |-> <<>>],
     finish_reason |-> "stop"]
BadToolChoice ==
    [hasMessage |-> TRUE,
     message |-> [content |-> Undefined,
                  tool_calls |-> <<[id |-> "call_1", type |-> "function",
                                    function |-> [name |-> "calculator",
                                                  arguments |-> "{bad"]]>>],
     finish_reason |-> "tool_calls"]
BackendReply(error, choices) ==
    [model |-> BALANCED, error |-> error, choices |-> choices,
     usage |-> [present |-> TRUE, prompt_tokens |-> 10, completion_tokens |-> 5]]
BackendReplies ==
    {BackendReply(NoError, <<HelloChoice>>),
     BackendReply(NoError, <<BadToolChoice>>),
     BackendReply([present |-> TRUE, message |-> "Invalid input"], <<>>),
     BackendReply(NoError, <<>>)}
StreamKinds == {<<"text_a", "done">>, <<"text_a">>, <<"tool", "finish">>}

PumpNotStarted ==
    /\ hasBody = FALSE
    /\ kinds = <<>>
    /\ stream = <<>>
    /\ pos = 0
    /\ status = 0
    /\ pc = "idle"
    /\ buffer = <<>>
    /\ lines = <<>>
    /\ out = <<>>
    /\ closeCalls = 0
    /\ writerErrored = FALSE
    /\ sawDone = FALSE
    /\ exitVia = "none"

InitFetch ==
    /\ PumpNotStarted
    /\ RespIdle /\ ModelIdle /\ MsgIdle /\ ReqIdle /\ ChunkIdle
    /\ \E m \in Methods, p \in Paths, b \in InboundBodies :
          httpRequest = [method |-> m, path |-> p, body |-> b.body, json |-> b.json]
    /\ env \in {[GEMINI_API_KEY |-> k] : k \in ApiKeys}
    /\ hpc = "start"
    /\ response = NoHttpResponse
    /\ backendCalls = 0
    /\ backendAnswer = "none"

\* fetch, up to `await handleAnthropicToGemini(request, env)` and its first await
FetchWithoutKeyCheck ==
    /\ hpc = "start"
    /\ IF httpRequest.method = "OPTIONS"
          THEN response' = handleCORS /\ hpc' = "done"
       ELSE IF httpRequest.path = "/v1/messages"
          THEN response' = response /\ hpc' = "json"
       ELSE /\ response' = createErrorResponse("not_found", "Endpoint not found", 404)
            /\ hpc' = "done"
    /\ UNCHANGED <<streamVars, respVars, modelVars, msgVars, reqVars, chunkVars,
                   httpRequest, env, backendCalls, backendAnswer>>
Fetch ==
    /\ hpc = "start"
    /\ IF httpRequest.method = "OPTIONS"
          THEN response' = handleCORS /\ hpc' = "done"
       ELSE IF ~IsTruthy(env.GEMINI_API_KEY)
          THEN /\ response' = createErrorResponse("configuration_error",
                                                  "GEMINI_API_KEY not configured", 500)
               /\ hpc' = "done"
       ELSE IF httpRequest.path = "/v1/messages"
          THEN response' = response /\ hpc' = "json"
       ELSE /\ response' = createErrorResponse("not_found", "Endpoint not found", 404)
            /\ hpc' = "done"
    /\ UNCHANGED <<streamVars, respVars, modelVars, msgVars, reqVars, chunkVars,
                   httpRequest, env, backendCalls, backendAnswer>>

\* `await request.json()` settles; validation, translation and the call of fetch follow
\* without an await in between
ParseBody ==
    /\ hpc = "json"
    /\ LET parsed == httpRequest.json
           v == validateAnthropicRequest(parsed)
           c == convertAnthropicToGemini(parsed)
       IN  CASE httpRequest.body = "malformed" ->
                  /\ response' = createErrorResponse("invalid_request_error",
                                                     "Invalid JSON in request body", 400)
                  /\ hpc' = "done"
                  /\ UNCHANGED <<reqVars, backendCalls>>
             [] httpRequest.body = "null" ->
                  \* `request.model` on null throws outside the inner try blocks: the
                  \* catch of fetch answers
                  /\ response' = createErrorResponse("internal_error", "TypeError", 500)
                  /\ hpc' = "done"
                  /\ UNCHANGED <<reqVars, backendCalls>>
             [] httpRequest.body = "object" ->
                  /\ anthropicRequest' = parsed
                  /\ validation' = v
                  /\ toolChoiceResult' = toolChoiceResult
                  /\ IF ~v.success
                        THEN /\ response' = createErrorResponse("invalid_request_error",
                                                                v.error, 400)
                             /\ hpc' = "done"
                             /\ reqPc' = "rejected"
                             /\ UNCHANGED <<conversionResult, backendCalls>>
                     ELSE /\ conversionResult' = c
                          /\ reqPc' = "converted"
                          /\ IF ~c.success
                                THEN /\ response' = createErrorResponse("conversion_error",
                                                                        c.error, 400)
                                     /\ hpc' = "done"
                                     /\ backendCalls' = backendCalls
                             ELSE /\ response' = response
                                  /\ hpc' = "fetch"
                                  /\ backendCalls' = backendCalls + 1
    /\ UNCHANGED <<streamVars, respVars, modelVars, msgVars, chunkVars, httpRequest, env,
                   backendAnswer>>

\* `await fetch(GEMINI_API_BASE, ...)` settles: it rejects, or resolves with a status
\* that is not ok, or with ok; a streaming answer goes to handleStreamingResponse
BackendRespondsRetrying ==
    /\ hpc = "fetch"
    /\ backendCalls < 3
    /\ backendCalls' = backendCalls + 1
    /\ backendAnswer' = "rejected"
    /\ UNCHANGED <<streamVars, respVars, modelVars, msgVars, reqVars, chunkVars,
                   httpRequest, env, hpc, response>>
BackendResponds ==
    /\ hpc = "fetch"
    /\ \E outcome \in {"reject", "notok", "ok"} :
          CASE outcome = "reject" ->
                 /\ backendAnswer' = "rejected"
                 /\ response' = createErrorResponse("internal_error",
                                                    "Processing failed: fetch failed", 500)
                 /\ hpc' = "done"
                 /\ UNCHANGED streamVars
            [] outcome = "notok" ->
                 /\ backendAnswer' = "not_ok"
                 /\ hpc' = "text"
                 /\ UNCHANGED <<response, streamVars>>
            [] outcome = "ok" /\ ~anthropicRequest.stream ->
                 /\ backendAnswer' = "ok"
                 /\ hpc' = "body"
                 /\ UNCHANGED <<response, streamVars>>
            [] outcome = "ok" /\ anthropicRequest.stream ->
                 /\ backendAnswer' = "ok"
                 /\ \E ks \in StreamKinds \cup {<<>>}, terminated \in BOOLEAN :
                       /\ hasBody' = (ks # <<>>)
                       /\ kinds' = ks
                       /\ stream' = BodyOf(ks, terminated)
                 /\ status' = 200
                 /\ pc' = IF hasBody' THEN "read" ELSE "catch"
                 /\ exitVia' = IF hasBody' THEN exitVia ELSE "nobody"
                 /\ response' = StreamResponse
                 /\ hpc' = "done"
                 /\ UNCHANGED <<pos, buffer, lines, out, closeCalls, writerErrored, sawDone>>
    /\ UNCHANGED <<respVars, modelVars, msgVars, reqVars, chunkVars, httpRequest, env,
                   backendCalls>>

\* `await geminiResponse.text()` settles, for a status that is not ok
ReadErrorText ==
    /\ hpc = "text"
    /\ \E resolved \in BOOLEAN :
          response' = IF resolved
                         THEN createErrorResponse("api_error", "Gemini API error", 502)
                      ELSE createErrorResponse("internal_error",
                                               "Processing failed: body read failed", 500)
    /\ hpc' = "done"
    /\ UNCHANGED <<streamVars, respVars, modelVars, msgVars, reqVars, chunkVars,
                   httpRequest, env, backendCalls, backendAnswer>>

\* `await geminiResponse.json()` settles; convertGeminiToAnthropic follows
ReadJsonUncaught ==
    /\ hpc = "body"
    /\ hpc' = "thrown"
    /\ UNCHANGED <<streamVars, respVars, modelVars, msgVars, reqVars, chunkVars,
                   httpRequest, env, response, backendCalls, backendAnswer>>
ReadJson ==
    /\ hpc = "body"
    /\ \/ /\ response' = createErrorResponse("internal_error",
                                             "Processing failed: SyntaxError", 500)
          /\ UNCHANGED respVars
       \/ \E geminiData \in BackendReplies, id \in {"msg_1_a", "msg_2_b"} :
             /\ geminiResponse' = geminiData
             /\ originalRequest' = [model |-> anthropicRequest.model.text]
             /\ result' = convertGeminiToAnthropic(geminiData, originalRequest', id)
             /\ respPc' = "done"
             /\ response' = IF result'.success THEN MessageResponse
                            ELSE createErrorResponse("conversion_error", result'.error, 400)
    /\ hpc' = "done"
    /\ UNCHANGED <<streamVars, modelVars, msgVars, reqVars, chunkVars, httpRequest, env,
                   backendCalls, backendAnswer>>

NextFetch ==
    \/ Fetch
    \/ ParseBody
    \/ BackendResponds
    \/ ReadErrorText
    \/ ReadJson
    \/ ReadChunk
    \/ ReadDone
    \/ ReadFail
    \/ ProcessLine
    \/ Catch
    \/ Finally
    \/ Disconnect

SpecFetch == InitFetch /\ [][NextFetch]_vars

\* ------------------------------------------------------------------ claims: routing
Answered == hpc = "done"

\* C20: every inbound request that is not an OPTIONS request and whose path is not
\* /v1/messages is answered with status 404 and an error of type not_found, whatever
\* the configuration of the backend credential is.
C20_UnknownPathIs404 ==
    (Answered /\ httpRequest.method # "OPTIONS" /\ httpRequest.path # "/v1/messages") =>
        (response.status = 404 /\ response.type = "not_found")

\* ------------------------------------------------------------------ claims: backend errors
BackendFailed ==
    \/ backendAnswer = "not_ok"
    \/ (backendAnswer = "ok" /\ respPc = "done" /\ geminiResponse.error.present)

\* C21: when the backend answers with a non-success status, or with a success status
\* and a body that carries an error object, the caller receives an error envelope of
\* type api_error with status 502, and no translated success response.
C21_BackendErrorIs502 ==
    (Answered /\ BackendFailed) =>
        /\ response.type = "api_error"
        /\ response.status = 502
        /\ response # MessageResponse

\* ------------------------------------------------------------------ claims: configuration
KeyMissing == ~IsTruthy(env.GEMINI_API_KEY)
NothingParsed ==
    /\ hpc \in {"start", "done"}
    /\ reqPc = "idle"
    /\ anthropicRequest = <<>>
    /\ backendCalls = 0
    /\ backendAnswer = "none"

\* C22 (as claimed): when GEMINI_API_KEY is absent, a request to /v1/messages receives
\* status 500 with an error of type configuration_error, its body is not parsed or
\* translated, and no backend call is issued.
C22_MissingKeyIs500 ==
    (KeyMissing /\ httpRequest.path = "/v1/messages") =>
        /\ NothingParsed
        /\ Answered => (response.status = 500 /\ response.type = "configuration_error")

\* C22 as the code has it: the 500 configuration_error answers every request to
\* /v1/messages but the OPTIONS request, which gets the 200 preflight response before
\* the key is looked at; in both cases nothing is parsed and no backend call is issued.
C22_MissingKeyIs500UnlessPreflight ==
    (KeyMissing /\ httpRequest.path = "/v1/messages") =>
        /\ NothingParsed
        /\ Answered =>
              response = (IF httpRequest.method = "OPTIONS" THEN handleCORS
                          ELSE createErrorResponse("configuration_error",
                                                   "GEMINI_API_KEY not configured", 500))

\* a well-formed POST to /v1/messages in a worker that has no key
C22_Witness ==
    /\ Answered
    /\ env.GEMINI_API_KEY = JUndefined
    /\ httpRequest.method = "POST"
    /\ httpRequest.path = "/v1/messages"
    /\ httpRequest.body = "object"
    /\ response.status = 500
    /\ response.type = "configuration_error"
    /\ backendCalls = 0

\* ------------------------------------------------------------------ claims: handler order
RequestRefused ==
    \/ reqPc = "rejected"
    \/ (reqPc = "converted" /\ ~conversionResult.success)

\* C23: the handler parses, validates, translates the request, calls the backend and
\* translates the answer, in this order: the backend is called at most once per inbound
\* request (a rejected call, a status that is not ok and an unreadable body are answered
\* without a second call), only after validateAnthropicRequest and
\* convertAnthropicToGemini have both succeeded; a request refused by either is answered
\* with an error envelope and no backend call.
C23_OneBackendCallAfterTranslation ==
    /\ [](/\ backendCalls \in {0, 1}
          /\ (reqPc # "idle") => httpRequest.body = "object"
          /\ (reqPc = "rejected") => (~validation.success /\ conversionResult = <<>>)
          /\ (reqPc = "converted") => validation.success
          /\ (backendCalls = 1) => (reqPc = "converted" /\ conversionResult.success)
          /\ (backendAnswer # "none") => backendCalls = 1
          /\ (respPc = "done" \/ pc # "idle") => backendAnswer = "ok"
          /\ (Answered /\ RequestRefused) =>
                /\ backendCalls = 0
                /\ response.status = 400
                /\ response.type \in {"invalid_request_error", "conversion_error"})
    /\ [][backendCalls' # backendCalls =>
              (hpc = "json" /\ hpc' = "fetch" /\ backendCalls = 0 /\ backendAnswer = "none")]_vars

\* a backend call that rejects is answered once, with no second call
C23_Witness ==
    /\ Answered
    /\ backendCalls = 1
    /\ backendAnswer = "rejected"
    /\ reqPc = "converted"
    /\ response.status = 500

\* ------------------------------------------------------------------ claims: error envelope
ErrorTypes == {"invalid_request_error", "conversion_error", "configuration_error",
               "api_error", "not_found", "internal_error"}
IsErrorEnvelope(r) ==
    /\ r.type \in ErrorTypes
    /\ r.status \in 400..599
    /\ r.message # ""
IsSuccessResponse(r) == r \in {handleCORS, MessageResponse, StreamResponse}
HandlerStep == Fetch \/ ParseBody \/ BackendResponds \/ ReadErrorText \/ ReadJson

\* the steps of the handler that can fail, and whether one did
StepFailed ==
    \/ httpRequest.path = "/v1/messages" /\ httpRequest.body \in {"malformed", "null"}
    \/ RequestRefused
    \/ backendAnswer \in {"rejected", "not_ok"}
    \/ (backendAnswer = "ok" /\ ~anthropicRequest.stream
            /\ (respPc # "done" \/ ~result.success))

\* C24: the fetch handler never throws past its boundary: while it has not answered it
\* can go on, and it answers with one response, which stays; when parsing the body,
\* validation, request translation (an exception inside it included), the backend call
\* or response translation fails, that response is an error envelope with a 4xx or 5xx
\* status.
C24_AlwaysOneResponse ==
    /\ [](/\ hpc \in {"start", "json", "fetch", "text", "body", "done"}
          /\ (~Answered) => (response = NoHttpResponse /\ ENABLED HandlerStep)
          /\ Answered => (IsSuccessResponse(response) \/ IsErrorEnvelope(response))
          /\ (Answered /\ httpRequest.method # "OPTIONS" /\ ~KeyMissing /\ StepFailed) =>
                IsErrorEnvelope(response))
    /\ [][Answered => (hpc' = "done" /\ response' = response)]_vars

\* an exception raised inside the request translation (an element of `messages` that is
\* no object) comes back as an envelope
C24_Witness ==
    /\ Answered
    /\ reqPc = "converted"
    /\ anthropicRequest.messages = MessagesArray(<<NullElement>>)
    /\ response = createErrorResponse("conversion_error",
                                      "Request conversion failed: TypeError", 400)

\* ------------------------------------------------------------------ SpecChunk
\* convertGeminiStreamChunk applied to one parsed chunk
DeltaContents == {Undefined, "", "a", "b"}
DeltaToolCall(arguments) == [function |-> [arguments |-> arguments]]
DeltaToolCalls ==
    SeqsUpTo({DeltaToolCall(a) : a \in {"", "{\"x\":", "1}"}}, MaxToolCalls)
StreamFinishReasons == {Undefined, "", "stop", "length", "tool_calls", "content_filter"}
StreamChoices ==
    {StreamChoice(c, tcs, f) :
        c \in DeltaContents, tcs \in DeltaToolCalls, f \in StreamFinishReasons}
OtherStreamChoice == StreamChoice("other", <<DeltaToolCall("{}")>>, "length")

InitChunk ==
    /\ PumpIdle
    /\ RespIdle /\ ModelIdle /\ MsgIdle /\ ReqIdle /\ FetchIdle
    /\ parsedChunk \in {ChunkWith(<<>>)}
                       \cup {ChunkWith(<<c>>) : c \in StreamChoices}
                       \cup {ChunkWith(<<c, OtherStreamChoice>>) : c \in StreamChoices}
    /\ derivedEvent = NoEvent
    /\ chunkPc = "input"

\* `const anthropicChunk = convertGeminiStreamChunk(geminiChunk, originalRequest)`
ConvertChunk ==
    /\ chunkPc = "input"
    /\ derivedEvent' = convertGeminiStreamChunk(parsedChunk)
    /\ chunkPc' = "done"
    /\ UNCHANGED <<streamVars, respVars, modelVars, msgVars, reqVars, fetchVars, parsedChunk>>

NextChunk == ConvertChunk

SpecChunk == InitChunk /\ [][NextChunk]_vars

\* ------------------------------------------------------------------ claims: stream chunks
\* the event of a chunk by the stated priority; `noReason` are the finish_reason values
\* that count as no finish reason
EventByPriority(chunk, noReason) ==
    IF chunk.choices = <<>> THEN NoEvent
    ELSE LET first == chunk.choices[1]
         IN  IF first.delta.content \notin {Undefined, ""}
                THEN [type |-> "content_block_delta", index |-> 0,
                      delta |-> [type |-> "text_delta", text |-> first.delta.content]]
             ELSE IF first.delta.tool_calls # <<>>
                THEN [type |-> "content_block_delta", index |-> 0,
                      delta |-> [type |-> "input_json_delta",
                                 partial_json |-> first.delta.tool_calls[1].function.arguments]]
             ELSE IF first.finish_reason \notin noReason THEN [type |-> "message_stop"]
             ELSE NoEvent

\* C25 (as claimed): convertGeminiStreamChunk derives at most one event, from the first
\* choice only: a text delta for a non-empty delta text, else an input-JSON delta with
\* the first tool call's argument fragment, else message_stop for a present
\* finish_reason, else nothing.
C25_PresentFinishReasonStops ==
    chunkPc = "done" => derivedEvent = EventByPriority(parsedChunk, {Undefined})

\* C25 as the code has it: the same priority, with message_stop only for a finish_reason
\* that is present and not the empty string.
C25_TruthyFinishReasonStops ==
    chunkPc = "done" => derivedEvent = EventByPriority(parsedChunk, {Undefined, ""})

\* text, a tool call and a finish reason in the first choice, and a second choice: only
\* the text delta of the first choice
C25_Witness ==
    /\ chunkPc = "done"
    /\ Len(parsedChunk.choices) = 2
    /\ parsedChunk.choices[1].delta.content = "a"
    /\ parsedChunk.choices[1].delta.tool_calls # <<>>
    /\ parsedChunk.choices[1].finish_reason = "stop"
    /\ derivedEvent = TextDelta("a")

\* ------------------------------------------------------------------ claims: cancellation
WriteFailed == \E i \in 1..Len(out) : ~out[i].ok

\* C26: once a write to the outbound stream has failed because the consumer is gone,
\* processGeminiStream calls reader.read() no more (no chunk is taken and no end of
\* body is awaited) before it finishes.
C26_WriteFailureStopsReading ==
    [][(WriteFailed /\ pc = "read") => (pc' = "read" /\ pos' = pos)]_vars

\* ------------------------------------------------------------------ claims: chunk boundaries
\* the events written for a body that arrives as one chunk: the for loop visits its
\* complete lines and stops after a terminator
RECURSIVE OneChunkEvents(_)
OneChunkEvents(ls) ==
    IF ls = <<>> THEN <<>>
    ELSE LET o == LineOutcome(Head(ls), FALSE)
         IN  IF o.ctl = "break" THEN o.write ELSE o.write \o OneChunkEvents(Tail(ls))
WholeBodyEvents == OneChunkEvents(Front(Split(stream)))

\* C27: the events emitted for a backend body do not depend on where the chunk
\* boundaries fall: however the body is split into chunks (inside a line, or between a
\* terminator and the lines after it), a pump that reads it to the end with a consumer
\* that stays connected emits the events it emits when the body arrives as one chunk.
C27_ChunkBoundariesIrrelevant ==
    (pc = "end" /\ exitVia = "exhausted" /\ ~WriteFailed) => Events(out) = WholeBodyEvents

\* ------------------------------------------------------------------ claims: the buffer
Received == SubSeq(stream, 1, pos)
BufferIsLastFragment ==
    /\ buffer = Last(Split(Received))
    /\ \A i \in 1..Len(buffer) : buffer[i] # NL
\* a read hands the for loop every complete line of the pending fragment and the chunk
AllLinesHandedOver ==
    (pc = "read" /\ pos' # pos) =>
        lines' = Front(Split(buffer \o SubSeq(stream, pos + 1, pos')))

\* C28 (as claimed): after each chunk the buffer holds only the text that follows the
\* last newline received, without a newline in it, and every complete line received
\* has been handed to line processing exactly once, in arrival order: the for loop
\* visits the lines one by one from the first to the last.
C28_EveryLineProcessedOnce ==
    /\ []BufferIsLastFragment
    /\ [][AllLinesHandedOver]_vars
    /\ [][(lines # <<>> /\ lines' # lines /\ pc' # "catch") => lines' = Tail(lines)]_vars

\* C28 as the code has it: the same, but the for loop ends at a terminator line, so the
\* lines that follow a terminator in the same chunk are not processed.
C28_LinesUpToTerminatorProcessedOnce ==
    /\ []BufferIsLastFragment
    /\ [][AllLinesHandedOver]_vars
    /\ [][(lines # <<>> /\ lines' # lines /\ pc' # "catch") =>
              lines' = (IF IsDoneLine(Head(lines)) THEN <<>> ELSE Tail(lines))]_vars
    /\ [][(pc = "for" /\ pc' = "read") => (lines' = <<>> /\ buffer' = buffer)]_vars

\* two lines processed, and a last record without its newline held back in the buffer
C28_Witness ==
    /\ pc = "read"
    /\ kinds = <<"text_a", "text_b", "done">>
    /\ pos = Len(stream)
    /\ buffer = <<DataPrefix, DoneToken>>
    /\ Events(out) = <<TextDelta("a"), TextDelta("b")>>

\* ------------------------------------------------------------------ claims: end of body
NoTerminatorRecord == \A i \in 1..Len(CompleteKinds) : CompleteKinds[i] # "done"

\* C29: when the body ends without a terminator record, processGeminiStream ends
\* normally: no error event is written, nothing is written for the end of the body (the
\* events are those of the complete well-formed lines, so the fragment pending after the
\* last newline, a `data: [DONE]` or a data record included, gives no event), and the
\* outbound stream is closed.
C29_UnannouncedEndIsNormal ==
    (pc \in {"finally", "end"} /\ exitVia = "exhausted" /\ NoTerminatorRecord) =>
        /\ \A i \in 1..Len(out) : out[i].frame.event # "error"
        /\ Events(out) = EventsOfKinds(
               SelectSeq(CompleteKinds, LAMBDA k : k \notin {"truncated", "null"}))
        /\ buffer = Last(Split(stream))
        /\ closeCalls = (IF pc = "end" THEN 1 ELSE 0)

\* a text record, then a terminator that lacks its newline when the body ends
C29_Witness ==
    /\ pc = "end"
    /\ exitVia = "exhausted"
    /\ kinds = <<"text_a", "done">>
    /\ buffer = <<DataPrefix, DoneToken>>
    /\ Events(out) = <<TextDelta("a")>>
    /\ \A i \in 1..Len(out) : out[i].ok
    /\ closeCalls = 1

\* ------------------------------------------------------------------ claims: event types
\* C30: every event written to an outbound stream is a content_block_delta, a
\* message_stop or an error, framed under its own type; every content_block_delta has
\* block index 0 and a text or input-JSON delta; message_start, content_block_start,
\* content_block_stop and message_delta are never written, so the first event is never
\* message_start.
C30_OnlyDeltaStopError ==
    /\ \A i \in 1..Len(out) :
          LET ev == out[i].frame.data
          IN  /\ out[i].frame.event = ev.type
              /\ ev.type \in {"content_block_delta", "message_stop", "error"}
              /\ ev.type \notin {"message_start", "content_block_start",
                                 "content_block_stop", "message_delta"}
              /\ (ev.type = "content_block_delta") =>
                    /\ ev.index = 0
                    /\ ev.delta.type \in {"text_delta", "input_json_delta"}
    /\ (out # <<>>) => out[1].frame.data.type # "message_start"
    /\ (out # <<>>) => (response = StreamResponse /\ status = 200)

\* a stream that opens with the argument fragment of a tool call
C30_Witness ==
    /\ pc = "end"
    /\ response = StreamResponse
    /\ Events(out) = <<InputJsonDelta("{\"x\":"), MessageStop>>
    /\ \A i \in 1..Len(out) : out[i].ok

====
